---- MODULE Spec2Model ----
(***************************************************************************)
(* The MCP protocol gateway of botcom1/MCP_Test_Server1: the JSON-RPC 2.0  *)
(* dispatch of POST /mcp in its three hand-written variants                *)
(*   part_002  zod-validated single-request route,                         *)
(*   part_003  MCPServer class (batch, isInitialized, SSE keep-alive),     *)
(*   part_004  multi-tool route with canned tool bodies,                   *)
(* and the SSE endpoint of part_003.                                       *)
(*                                                                         *)
(* JSON values.  A JSON string is modelled by itself; every other JS value *)
(* is an atom written in angle brackets, so the number 1 ("<num:1>") and   *)
(* the string "1" are different values of different types.                 *)
(***************************************************************************)
EXTENDS Integers, Sequences, FiniteSets, TLC

Undefined == "<undefined>"
Null == "<null>"
ObjectAtom == "<object>"
NumberAtoms == {"<num:0>", "<num:1>", "<num:2>", "<num:7>"}
BooleanAtoms == {"<true>"}

\* typeof v, with null reported apart (zod and === tell null from objects)
typeOf(v) ==
  CASE v = Undefined -> "undefined"
    [] v = Null -> "null"
    [] v = ObjectAtom -> "object"
    [] v \in NumberAtoms -> "number"
    [] v \in BooleanAtoms -> "boolean"
    [] OTHER -> "string"

\* JS truthiness, as tested by `!x` and `x || y`
Truthy(v) == v \notin {Undefined, Null, "<num:0>", ""}

\* x || y
OrElse(x, y) == IF Truthy(x) THEN x ELSE y

\* String(v), as performed by a template literal `${v}`
StringOf(v) ==
  CASE v = Undefined -> "undefined"
    [] v = Null -> "null"
    [] v = ObjectAtom -> "[object Object]"
    [] v = "<num:0>" -> "0"
    [] v = "<num:1>" -> "1"
    [] v = "<num:2>" -> "2"
    [] v = "<num:7>" -> "7"
    [] v = "<true>" -> "true"
    [] OTHER -> v

(***************************************************************************)
(* Decoded payloads.  A payload element is a record of the properties the  *)
(* handlers read.  kind is "object", or "null" / "primitive" for an array  *)
(* element that is no object (all its properties read as undefined).       *)
(* params is Undefined, Null, ObjectAtom or a string; name and arguments   *)
(* are the properties of an object params; category, type and query those  *)
(* of an object arguments.                                                 *)
(***************************************************************************)
Obj(j, i, m) ==
  [kind |-> "object", jsonrpc |-> j, id |-> i, method |-> m,
   params |-> Undefined, name |-> Undefined, arguments |-> Undefined,
   category |-> Undefined, type |-> Undefined, query |-> Undefined]

NullElem == [Obj(Undefined, Undefined, Undefined) EXCEPT !.kind = "null"]
PrimElem == [Obj(Undefined, Undefined, Undefined) EXCEPT !.kind = "primitive"]

Call(i, n, a, c, t, q) ==
  [Obj("2.0", i, "tools/call") EXCEPT !.params = ObjectAtom, !.name = n,
     !.arguments = a, !.category = c, !.type = t, !.query = q]

\* property reads: x.p of a non-object is undefined
paramsName(request) ==
  IF request.params = ObjectAtom THEN request.name ELSE Undefined
paramsArguments(request) ==
  IF request.params = ObjectAtom THEN request.arguments ELSE Undefined
argOf(request, p) ==
  IF paramsArguments(request) = ObjectAtom THEN request[p] ELSE Undefined

(***************************************************************************)
(* Responses                                                               *)
(***************************************************************************)
InvalidRequest == -32600
MethodNotFound == -32601
InvalidParams == -32602
InternalError == -32603

RpcResult(id, result) == [jsonrpc |-> "2.0", id |-> id, result |-> result]
\* an error object that also carries a result property
RpcError_withResult(id, code, message) ==
  [jsonrpc |-> "2.0", id |-> id, result |-> [empty |-> TRUE],
   error |-> [code |-> code, message |-> message]]

RpcError(id, code, message) ==
  [jsonrpc |-> "2.0", id |-> id, error |-> [code |-> code, message |-> message]]
RpcErrorData(id, code, message, data) ==
  [jsonrpc |-> "2.0", id |-> id,
   error |-> [code |-> code, message |-> message, data |-> data]]

\* a message is the sequence of the parts of its template literal
Contains(message, s) == \E k \in DOMAIN message : message[k] = s

\* JSON.stringify drops a property whose value is undefined
JSONstringify(resp) ==
  IF resp.id = Undefined THEN [f \in DOMAIN resp \ {"id"} |-> resp[f]] ELSE resp

HasId(w) == "id" \in DOMAIN w
HasResult(w) == "result" \in DOMAIN w
HasError(w) == "error" \in DOMAIN w

(***************************************************************************)
(* Tool registries: the toolDefinitions arrays of part_002 and part_003,   *)
(* and the literal list the tools/list branch of part_004 returns.         *)
(***************************************************************************)
Impls == {"part_002", "part_003", "part_004"}

JokeTools ==
  <<"get-chuck-joke", "get-chuck-joke-by-category", "get-chuck-categories",
    "get-dad-joke">>
MultiTools == <<"get_joke", "get_fact", "search_recipe">>

\* a registry that declares a tool no tool switch has a case for
DeclaredTools_stale(v) ==
  Append(IF v = "part_004" THEN MultiTools ELSE JokeTools, "no-such-tool")

DeclaredTools(v) == IF v = "part_004" THEN MultiTools ELSE JokeTools

\* inputSchema.required of a tool definition
requiredOf(tool) ==
  CASE tool = "get-chuck-joke-by-category" -> {"category"}
    [] tool \in {"get_joke", "get_fact"} -> {"type"}
    [] tool = "search_recipe" -> {"query"}
    [] OTHER -> {}

(***************************************************************************)
(* State of one async handler call (a promise): st is "resolved" or        *)
(* "rejected" once settled, "fetch" while awaiting fetch(), "json" while   *)
(* awaiting response.json().  resp holds the response object it produced,  *)
(* status the HTTP status it wrote (routes that write from the handler),   *)
(* ran whether a tool body was entered.                                    *)
(***************************************************************************)
Resolved(resp, status, ran) ==
  [st |-> "resolved", tool |-> "", resp |-> <<resp>>, status |-> status, ran |-> ran]
Rejected ==
  [st |-> "rejected", tool |-> "", resp |-> <<>>, status |-> 0, ran |-> FALSE]
AwaitFetch(tool) ==
  [st |-> "fetch", tool |-> tool, resp |-> <<>>, status |-> 0, ran |-> TRUE]
AwaitJson(tool) ==
  [st |-> "json", tool |-> tool, resp |-> <<>>, status |-> 0, ran |-> TRUE]

Settled(h) == h.st \in {"resolved", "rejected"}

\* outcomes of the external collaborator
FetchOutcomes == {"ok", "notok", "reject"}
JsonOutcomes == {"ok", "reject"}

TextContent(tool) == [content |-> <<[type |-> "text", text |-> tool]>>]

(***************************************************************************)
(* part_003: class MCPServer                                               *)
(***************************************************************************)
InitializeResult003 ==
  [protocolVersion |-> "2024-11-05", capabilities |-> {"tools", "logging"},
   serverInfo |-> [name |-> "jokes-mcp-server", version |-> "1.0.0"]]

\* a tools/list result that skips the first definition
toolsListResult_skipFirst(tools) == [tools |-> Tail(tools)]

\* result: { tools: toolDefinitions }
toolsListResult(tools) == [tools |-> tools]

ToolSuccess(id, tool) == RpcResult(id, TextContent(tool))

\* executeTool up to its first await
executeTool(id, request) ==
  IF ~Truthy(request.params) \/ ~Truthy(paramsName(request))
  THEN Resolved(RpcError(id, InvalidParams,
                         <<"Invalid params: tool name is required">>), 200, FALSE)
  ELSE LET toolName == paramsName(request)
           category == IF Truthy(paramsArguments(request))
                       THEN argOf(request, "category") ELSE Undefined
       IN CASE toolName = "get-chuck-joke" -> AwaitFetch(toolName)
            [] toolName = "get-chuck-joke-by-category" ->
                 IF ~Truthy(category)
                 THEN Resolved(RpcError(id, InvalidParams,
                                <<"Invalid params: category is required">>), 200, FALSE)
                 ELSE AwaitFetch(toolName)
            [] toolName = "get-chuck-categories" -> AwaitFetch(toolName)
            [] toolName = "get-dad-joke" -> AwaitFetch(toolName)
            [] OTHER ->
                 Resolved(RpcError(id, MethodNotFound,
                                   <<"Unknown tool: ", StringOf(toolName)>>), 200, FALSE)

\* executeTool resumed when fetch() settles with outcome o
executeToolAfterFetch(id, h, o) ==
  IF o = "reject"
  THEN Resolved(RpcError(id, InternalError,
                 <<"Tool execution failed: ", "fetch failed">>), 200, TRUE)
  ELSE IF h.tool = "get-chuck-joke-by-category" /\ o = "notok"
       THEN Resolved(RpcError(id, InternalError, <<"Invalid category">>), 200, TRUE)
       ELSE AwaitJson(h.tool)

\* executeTool resumed when response.json() settles with outcome o
executeToolAfterJson(id, h, o) ==
  IF o = "reject"
  THEN Resolved(RpcError(id, InternalError,
                 <<"Tool execution failed: ", "Unexpected token">>), 200, TRUE)
  ELSE Resolved(ToolSuccess(id, h.tool), 200, TRUE)

\* processSingleRequest up to its first await; destructuring null throws
\* before the try block is entered
processSingleRequest(request, tools) ==
  IF request.kind = "null" THEN Rejected
  ELSE LET id == request.id
           method == request.method
       IN CASE method = "initialize" ->
                 Resolved(RpcResult(id, InitializeResult003), 200, FALSE)
            [] method = "initialized" ->
                 Resolved(RpcResult(id, [empty |-> TRUE]), 200, FALSE)
            [] method = "tools/list" ->
                 Resolved(RpcResult(id, toolsListResult(tools)), 200, FALSE)
            [] method = "tools/call" -> executeTool(id, request)
            [] method = "completion/complete" ->
                 Resolved(RpcResult(id, [completion |-> "empty"]), 200, FALSE)
            [] OTHER ->
                 Resolved(RpcError(id, MethodNotFound,
                                   <<"Method not found: ", StringOf(method)>>), 200, FALSE)

\* the assignment isInitialized = true of the initialize branch
setsInitialized(request) == request.kind # "null" /\ request.method = "initialize"

\* a decoded HTTP body: one object, or an array of elements
bodyId(body) == IF body.isArray THEN Undefined ELSE body.items[1].id

\* the fulfilment values in the order the promises settled
PromiseAll_bySettlement(elems, settled) ==
  [i \in 1..Len(elems) |-> elems[settled[i]].resp[1]]

\* Promise.all: the array of the fulfilment values, by position
PromiseAll(elems, settled) == [i \in 1..Len(elems) |-> elems[i].resp[1]]

HttpWrite(status, isArray, objs) ==
  [status |-> status, isArray |-> isArray,
   body |-> [i \in 1..Len(objs) |-> JSONstringify(objs[i])]]

\* app.post('/mcp') of part_003 around handleRequest: what it writes, if anything,
\* given the promises of the element handlers
route003(body, elems, settled) ==
  IF \E i \in 1..Len(elems) : elems[i].st = "rejected"
  THEN <<HttpWrite(500, FALSE,
           <<RpcError(OrElse(bodyId(body), Null), InternalError,
                      <<"Internal server error">>)>>)>>
  ELSE IF \A i \in 1..Len(elems) : elems[i].st = "resolved"
       THEN <<HttpWrite(200, body.isArray, PromiseAll(elems, settled))>>
       ELSE <<>>

(***************************************************************************)
(* zod schemas: the paths of the issues parse() reports, in key order      *)
(***************************************************************************)
fieldFails(request, f) ==
  CASE f = "jsonrpc" -> request.jsonrpc # "2.0"
    [] f = "id" -> typeOf(request.id) \notin {"string", "number"}
    [] f = "method" -> typeOf(request.method) # "string"
    [] OTHER -> FALSE

zodIssues(body, keys) ==
  IF body.isArray THEN <<"(root)">>
  ELSE LET Bad(f) == fieldFails(body.items[1], f) IN SelectSeq(keys, Bad)

JsonRpcRequestSchema(body) == zodIssues(body, <<"jsonrpc", "id", "method">>)

\* part_004 writes z.string().literal('2.0'); it is read as the literal check
\* z.literal('2.0') that part_002 spells out
MCPRequestSchema(body) == zodIssues(body, <<"jsonrpc", "method", "id">>)

(***************************************************************************)
(* part_002: app.post('/mcp'), the handler writes the response itself      *)
(***************************************************************************)
catch002(body, isZodError, issues) ==
  IF isZodError
  THEN Resolved(RpcErrorData(OrElse(bodyId(body), Null), InvalidRequest,
                             <<"Invalid Request">>, issues), 200, FALSE)
  ELSE Resolved(RpcError(OrElse(bodyId(body), Null), InternalError,
                         <<"Internal server error">>), 500, TRUE)

postMcp002(body, tools) ==
  LET issues == JsonRpcRequestSchema(body) IN
  IF issues # <<>> THEN catch002(body, TRUE, issues)
  ELSE LET request == body.items[1]
           id == request.id
           method == request.method
           toolName == paramsName(request)
           category == IF Truthy(paramsArguments(request))
                       THEN argOf(request, "category") ELSE Undefined
       IN CASE method = "initialize" ->
                 Resolved(RpcResult(id, InitializeResult003), 200, FALSE)
            [] method = "tools/list" ->
                 Resolved(RpcResult(id, toolsListResult(tools)), 200, FALSE)
            [] method = "tools/call" ->
                 IF ~Truthy(request.params) \/ ~Truthy(toolName)
                 THEN Resolved(RpcError(id, InvalidParams,
                        <<"Invalid params: tool name is required">>), 200, FALSE)
                 ELSE CASE toolName = "get-chuck-joke" -> AwaitFetch(toolName)
                        [] toolName = "get-chuck-joke-by-category" ->
                             IF ~Truthy(category)
                             THEN Resolved(RpcError(id, InvalidParams,
                                    <<"Invalid params: category is required">>),
                                    200, FALSE)
                             ELSE AwaitFetch(toolName)
                        [] toolName = "get-chuck-categories" -> AwaitFetch(toolName)
                        [] toolName = "get-dad-joke" -> AwaitFetch(toolName)
                        [] OTHER ->
                             Resolved(RpcError(id, MethodNotFound,
                                    <<"Unknown tool: ", StringOf(toolName)>>),
                                    200, FALSE)
            [] method \in {"notifications/initialized", "logging/setLevel"} ->
                 Resolved(RpcResult(id, [empty |-> TRUE]), 200, FALSE)
            [] OTHER ->
                 Resolved(RpcError(id, MethodNotFound,
                                   <<"Method not found: ", StringOf(method)>>),
                          200, FALSE)

postMcp002AfterFetch(body, h, o) ==
  IF o = "reject" THEN catch002(body, FALSE, <<>>)
  ELSE IF h.tool = "get-chuck-joke-by-category" /\ o = "notok"
       THEN Resolved(RpcError(body.items[1].id, InternalError,
                              <<"Invalid category">>), 200, TRUE)
       ELSE AwaitJson(h.tool)

postMcp002AfterJson(body, h, o) ==
  IF o = "reject" THEN catch002(body, FALSE, <<>>)
  ELSE Resolved(RpcResult(body.items[1].id, TextContent(h.tool)), 200, TRUE)

(***************************************************************************)
(* part_004: app.post('/mcp'), canned tool bodies, no await                *)
(***************************************************************************)
InitializeResult004 ==
  [protocolVersion |-> "1.0.0", capabilities |-> {"tools"},
   serverInfo |-> [name |-> "Multi-Tool MCP Server", version |-> "1.0.0"]]

catch004(body, message, ran) ==
  Resolved(RpcError(OrElse(bodyId(body), Null), InternalError, message), 400, ran)

postMcp004(body) ==
  LET issues == MCPRequestSchema(body) IN
  IF issues # <<>> THEN catch004(body, <<"ZodError">> \o issues, FALSE)
  ELSE LET request == body.items[1]
           id == request.id
           method == request.method
           toolName == paramsName(request)
           type == IF Truthy(paramsArguments(request))
                   THEN argOf(request, "type") ELSE Undefined
       IN CASE method = "initialize" ->
                 Resolved(RpcResult(id, InitializeResult004), 200, FALSE)
            [] method = "tools/list" ->
                 Resolved(RpcResult(id, toolsListResult(MultiTools)), 200, FALSE)
            [] method = "tools/call" ->
                 CASE toolName = "get_joke" ->
                        Resolved(RpcResult(id, TextContent(
                          IF type = "dad" THEN "dad joke" ELSE "chuck joke")),
                          200, TRUE)
                   [] toolName = "get_fact" ->
                        Resolved(RpcResult(id, TextContent(
                          IF type = "cat" THEN "cat fact" ELSE "number fact")),
                          200, TRUE)
                   [] toolName = "search_recipe" ->
                        Resolved(RpcResult(id, TextContent("recipes")), 200, TRUE)
                   [] OTHER ->
                        catch004(body, <<"Unknown tool: ", StringOf(toolName)>>, FALSE)
            [] OTHER ->
                 Resolved(RpcError(id, MethodNotFound, <<"Method not found">>),
                          400, FALSE)

\* a route whose handler writes its answer and falls through to a second write
routeDirect_twice(elems) ==
  IF elems[1].st = "resolved"
  THEN <<HttpWrite(elems[1].status, FALSE, elems[1].resp),
         HttpWrite(elems[1].status, FALSE, elems[1].resp)>>
  ELSE <<>>

\* what the route of part_002 / part_004 has written once its handler is done
routeDirect(elems) ==
  IF elems[1].st = "resolved"
  THEN <<HttpWrite(elems[1].status, FALSE, elems[1].resp)>>
  ELSE <<>>

(***************************************************************************)
(* Inputs                                                                  *)
(***************************************************************************)
MaxBatch == 2
MaxListCalls == 2

JsonrpcVals == {"2.0", "1.0", Undefined}
IdVals == {Undefined, Null, "<num:0>", "<num:1>", "", "1", "<true>"}
ValidIds == {"<num:0>", "<num:1>", "", "1"}
MethodVals ==
  {Undefined, "<num:7>", "", "initialize", "initialized", "tools/list",
   "tools/call", "notifications/initialized", "logging/setLevel",
   "completion/complete", "foo/bar"}
Range(q) == {q[k] : k \in DOMAIN q}
RegisteredNames == Range(JokeTools) \cup Range(MultiTools)
NameVals == {Undefined, "", "<num:7>", "no-such-tool"} \cup RegisteredNames
ArgsVals ==
  {<<Undefined, Undefined, Undefined, Undefined>>,
   <<ObjectAtom, Undefined, Undefined, Undefined>>,
   <<ObjectAtom, "dev", Undefined, Undefined>>,
   <<ObjectAtom, "", Undefined, Undefined>>,
   <<ObjectAtom, Undefined, "dad", Undefined>>,
   <<ObjectAtom, Undefined, "cat", Undefined>>,
   <<ObjectAtom, Undefined, Undefined, "soup">>}

Envelopes == {Obj(j, i, m) : j \in JsonrpcVals, i \in IdVals, m \in MethodVals}
ToolCalls ==
  {[Call(i, n, a[1], a[2], a[3], a[4]) EXCEPT !.jsonrpc = j] :
      i \in ValidIds, n \in NameVals, a \in ArgsVals, j \in {"2.0", "1.0"}}
OddParams ==
  {[Obj("2.0", i, "tools/call") EXCEPT !.params = p] :
      i \in ValidIds, p \in {Null, "text"}}
Requests == Envelopes \cup ToolCalls \cup OddParams

BatchElems ==
  {NullElem, PrimElem,
   Obj("2.0", "<num:1>", "tools/list"),
   Obj("2.0", "1", "initialize"),
   Obj("2.0", "<num:2>", "foo/bar"),
   Call("<num:0>", "get-chuck-joke", Undefined, Undefined, Undefined, Undefined),
   Call("", "get-chuck-joke-by-category", ObjectAtom, Undefined, Undefined, Undefined),
   Call("b", "get-dad-joke", Undefined, Undefined, Undefined, Undefined)}

SeqsUpTo(S, n) == UNION {[1..k -> S] : k \in 0..n}

Single(request) == [isArray |-> FALSE, items |-> <<request>>]
Batch(items) == [isArray |-> TRUE, items |-> items]
Bodies ==
  {Single(r) : r \in Requests} \cup {Batch(q) : q \in SeqsUpTo(BatchElems, MaxBatch)}

\* a valid envelope: jsonrpc "2.0", id a string or number, method a string
ValidEnvelope(request) ==
  /\ request.kind = "object"
  /\ request.jsonrpc = "2.0"
  /\ typeOf(request.id) \in {"string", "number"}
  /\ typeOf(request.method) = "string"

(***************************************************************************)
(* State                                                                   *)
(***************************************************************************)
VARIABLES
  impl,             \* the server file that is running
  toolDefinitions,  \* the toolDefinitions array
  isInitialized,    \* part_003: let isInitialized
  cur,              \* the POST /mcp exchange being served
  listsSeen,        \* the tool lists tools/list responses have carried
  listCalls,        \* how many tools/list responses were written (saturating)
  posts,            \* the concurrent POST /mcp exchanges of one client, by arrival
  delivered,        \* their arrival numbers, in the order the responses were written
  sse,              \* the GET /mcp/sse connections
  timers,           \* the active setInterval handles
  memo,             \* history: the answers given so far, by request and I/O outcomes
  io,               \* history: the I/O outcomes of the exchange being served
  initHandled,      \* history: an initialize request has been handled
  health,           \* the last GET /health body each client received
  handshook,        \* the clients that have sent initialize
  closed            \* the connection of the exchange being served has closed

postVars == <<impl, toolDefinitions, isInitialized, cur, listsSeen, listCalls>>
streamVars == <<posts, delivered>>
sseVars == <<sse, timers>>
histVars == <<memo, io, initHandled>>
clientVars == <<health, handshook, closed>>
vars == <<postVars, streamVars, sseVars, histVars, clientVars>>

Clients == {"A", "B"}
NoHealth == [c \in Clients |-> <<>>]

Idle ==
  [phase |-> "idle", isArray |-> FALSE, items |-> <<>>, elems |-> <<>>,
   settled |-> <<>>, out |-> <<>>]

curBody == [isArray |-> cur.isArray, items |-> cur.items]

\* handlers that turn away every request but initialize until the handshake
startHandlers_requireInit(v, body, tools) ==
  CASE v = "part_002" -> <<postMcp002(body, tools)>>
    [] v = "part_003" ->
         [i \in 1..Len(body.items) |->
            IF /\ ~isInitialized /\ body.items[i].kind # "null"
               /\ body.items[i].method # "initialize"
            THEN Resolved(RpcError(body.items[i].id, InvalidRequest,
                                   <<"Server not initialized">>), 200, FALSE)
            ELSE processSingleRequest(body.items[i], tools)]
    [] v = "part_004" -> <<postMcp004(body)>>

\* the synchronous part of the element handlers a POST starts
startHandlers(v, body, tools) ==
  CASE v = "part_002" -> <<postMcp002(body, tools)>>
    [] v = "part_003" ->
         [i \in 1..Len(body.items) |-> processSingleRequest(body.items[i], tools)]
    [] v = "part_004" -> <<postMcp004(body)>>

afterFetch(v, body, i, h, o) ==
  IF v = "part_003" THEN executeToolAfterFetch(body.items[i].id, h, o)
  ELSE postMcp002AfterFetch(body, h, o)

afterJson(v, body, i, h, o) ==
  IF v = "part_003" THEN executeToolAfterJson(body.items[i].id, h, o)
  ELSE postMcp002AfterJson(body, h, o)

route(v, body, elems, settled) ==
  IF v = "part_003" THEN route003(body, elems, settled) ELSE routeDirect(elems)

settledNow(elems) == SelectSeq([i \in 1..Len(elems) |-> i], LAMBDA i : Settled(elems[i]))

listAnswers(out) ==
  {p \in (DOMAIN out) \X (1..MaxBatch + 1) :
                     /\ p[2] \in DOMAIN out[p[1]].body
                     /\ HasResult(out[p[1]].body[p[2]])
                     /\ "tools" \in DOMAIN out[p[1]].body[p[2]].result}

toolLists(out) == {out[p[1]].body[p[2]].result.tools : p \in listAnswers(out)}

Min(a, b) == IF a < b THEN a ELSE b

\* the bookkeeping of the tools/list answers a write carries
Observe(old, new) ==
  /\ listsSeen' = listsSeen \cup toolLists(new)
  /\ listCalls' = IF old = <<>>
                  THEN Min(MaxListCalls, listCalls + Cardinality(listAnswers(new)))
                  ELSE listCalls

\* the exchange after its handlers moved to elems: the route writes at most once
Exchange(body, elems, settled, out) ==
  LET w == IF out = <<>> THEN route(impl, body, elems, settled) ELSE out
  IN [phase |-> IF w = <<>> THEN "pending" ELSE "responded",
      isArray |-> body.isArray, items |-> body.items,
      elems |-> elems, settled |-> settled, out |-> w]

(***************************************************************************)
(* One client sending POST /mcp requests without waiting for the answers   *)
(* (part_003), and the SSE connections of GET /mcp/sse                     *)
(***************************************************************************)
MaxPosts == 3
MaxSse == 2
MaxPings == 2

StreamIds == <<"r1", "r2", "r3", "r4", "r5">>
StreamTools == {"get-chuck-joke", "get-chuck-joke-by-category"}
StreamRequest(k, tool) ==
  Call(StreamIds[k], tool, ObjectAtom, "dev", Undefined, Undefined)

NoPost == [arrived |-> FALSE, req |-> NullElem, h |-> Rejected, out |-> <<>>]
NoPosts == [k \in 1..MaxPosts |-> NoPost]

NoSse == [c \in 1..MaxSse |->
            [st |-> "none", opens |-> 0, pings |-> 0, keepAlive |-> 0]]

Init ==
  /\ impl \in Impls
  /\ toolDefinitions = DeclaredTools(impl)
  /\ isInitialized = FALSE
  /\ cur = Idle
  /\ listsSeen = {}
  /\ listCalls = 0
  /\ posts = NoPosts
  /\ delivered = <<>>
  /\ sse = NoSse
  /\ timers = {}
  /\ memo = {}
  /\ io = <<>>
  /\ initHandled = FALSE
  /\ health = NoHealth
  /\ handshook = {}
  /\ closed = FALSE

\* POST /mcp arrives with a decoded body; the handlers run to their first await
PostMcpStep(body) ==
  /\ cur.phase = "idle"
  /\ LET elems == startHandlers(impl, body, toolDefinitions)
     IN /\ cur' = Exchange(body, elems, settledNow(elems), <<>>)
        /\ isInitialized' =
             (isInitialized \/ (impl = "part_003" /\
                \E i \in 1..Len(body.items) : setsInitialized(body.items[i])))
  /\ Observe(<<>>, cur'.out)
  /\ UNCHANGED <<impl, toolDefinitions, streamVars, sseVars>>

\* the fetch() of element handler i settles
FetchSettlesStep(i, o) ==
  /\ i \in DOMAIN cur.elems
  /\ cur.elems[i].st = "fetch"
  /\ LET h == afterFetch(impl, curBody, i, cur.elems[i], o)
         elems == [cur.elems EXCEPT ![i] = h]
         settled == IF Settled(h) THEN Append(cur.settled, i) ELSE cur.settled
     IN cur' = Exchange(curBody, elems, settled, cur.out)
  /\ Observe(cur.out, cur'.out)
  /\ UNCHANGED <<impl, toolDefinitions, isInitialized, streamVars, sseVars>>

\* the response.json() of element handler i settles
JsonSettlesStep(i, o) ==
  /\ i \in DOMAIN cur.elems
  /\ cur.elems[i].st = "json"
  /\ LET h == afterJson(impl, curBody, i, cur.elems[i], o)
         elems == [cur.elems EXCEPT ![i] = h]
         settled == Append(cur.settled, i)
     IN cur' = Exchange(curBody, elems, settled, cur.out)
  /\ Observe(cur.out, cur'.out)
  /\ UNCHANGED <<impl, toolDefinitions, isInitialized, streamVars, sseVars>>

\* res.json has flushed the response and the exchange is over; the server is
\* ready for the next POST (handlers still awaiting I/O have no one to answer)
FlushedStep ==
  /\ cur.phase = "responded"
  /\ cur' = Idle
  /\ UNCHANGED <<impl, toolDefinitions, isInitialized, listsSeen, listCalls,
                 streamVars, sseVars>>

PostMcp(body) == PostMcpStep(body) /\ UNCHANGED <<histVars, clientVars>>
FetchSettles(i, o) == FetchSettlesStep(i, o) /\ UNCHANGED <<histVars, clientVars>>
JsonSettles(i, o) == JsonSettlesStep(i, o) /\ UNCHANGED <<histVars, clientVars>>
Flushed == FlushedStep /\ UNCHANGED <<histVars, clientVars>>

Next ==
  \/ \E body \in Bodies : PostMcp(body)
  \/ Flushed
  \/ \E i \in 1..(MaxBatch + 1), o \in FetchOutcomes : FetchSettles(i, o)
  \/ \E i \in 1..(MaxBatch + 1), o \in JsonOutcomes : JsonSettles(i, o)

Spec == Init /\ [][Next]_vars

(***************************************************************************)
(* Properties of POST /mcp                                                 *)
(***************************************************************************)
Responded == cur.phase = "responded"
Written == cur.out[1]
SingleAnswered == Responded /\ ~cur.isArray
TheRequest == cur.items[1]
TheAnswer == Written.body[1]
ErrorCode(w, code) == HasError(w) /\ w.error.code = code
\* the id a wire object carries, Undefined when it has no id property
WireId(w) == IF HasId(w) THEN w.id ELSE Undefined
\* the running server registers the tool
Registered(name) == name \in Range(DeclaredTools(impl))

\* C1: the response to a request with a valid envelope carries the request's
\* id, unchanged in value and type, whatever method and branch answered it.
C1_IdEchoed ==
  (SingleAnswered /\ ValidEnvelope(TheRequest))
    => (HasId(TheAnswer) /\ TheAnswer.id = TheRequest.id)

\* C2: every response object written, on every path, has exactly one of the
\* properties result and error.
C2_ResultXorError ==
  \A k \in DOMAIN cur.out : \A i \in DOMAIN cur.out[k].body :
     HasResult(cur.out[k].body[i]) # HasError(cur.out[k].body[i])

\* C2 witness: a batch answered by an array that holds a result and an error
C2_Witness ==
  /\ Responded /\ cur.isArray /\ Written.isArray /\ Len(Written.body) = 2
  /\ HasResult(Written.body[1]) /\ HasError(Written.body[2])

\* C3: a tools/call of a registered tool that lacks a required argument is
\* answered with error -32602 and the tool body is not executed.
C3_MissingRequiredArgument ==
  (/\ SingleAnswered /\ ValidEnvelope(TheRequest)
   /\ TheRequest.method = "tools/call"
   /\ Registered(paramsName(TheRequest))
   /\ \E a \in requiredOf(paramsName(TheRequest)) :
         argOf(TheRequest, a) = Undefined)
    => (ErrorCode(TheAnswer, InvalidParams) /\ ~cur.elems[1].ran)

\* C4: a tools/call whose name is a non-empty string naming no registered tool
\* is answered with error -32601 whose message contains the name, and no
\* tool body is executed.
C4_UnknownTool ==
  (/\ SingleAnswered /\ ValidEnvelope(TheRequest)
   /\ TheRequest.method = "tools/call"
   /\ typeOf(paramsName(TheRequest)) = "string"
   /\ paramsName(TheRequest) # ""
   /\ ~Registered(paramsName(TheRequest)))
    => (/\ ErrorCode(TheAnswer, MethodNotFound)
        /\ Contains(TheAnswer.error.message, paramsName(TheRequest))
        /\ ~cur.elems[1].ran)

\* C5: a payload object that is not a valid envelope is answered with error
\* -32600 and is never routed to a method branch.
C5_InvalidEnvelopeRejected ==
  (SingleAnswered /\ ~ValidEnvelope(TheRequest))
    => ErrorCode(TheAnswer, InvalidRequest)

\* C6: the MCPServer answers a batch of n requests (no element is null) with an
\* array of n responses whose i-th entry carries the id of the i-th request,
\* in whatever order the element handlers complete.
C6_BatchOrder ==
  (/\ Responded /\ cur.isArray /\ impl = "part_003"
   /\ \A i \in DOMAIN cur.items : cur.items[i].kind # "null")
    => (/\ Written.isArray
        /\ Len(Written.body) = Len(cur.items)
        /\ \A i \in DOMAIN cur.items : WireId(Written.body[i]) = cur.items[i].id)

\* C6 witness: a two-element batch answered after its second element handler
\* completed before its first
C6_Witness ==
  /\ Responded /\ cur.isArray /\ impl = "part_003"
  /\ cur.settled = <<2, 1>>
  /\ Written.isArray
  /\ cur.items[1].id # cur.items[2].id

\* C7: in a batch the failure of one element (a null element included) leaves
\* the reply the per-element array, in which every sibling has the response
\* its own handler produced.
C7_BatchIsolation ==
  (Responded /\ cur.isArray /\ impl = "part_003")
    => (/\ Written.isArray
        /\ Len(Written.body) = Len(cur.items)
        /\ \A i \in DOMAIN cur.items :
             cur.elems[i].st = "resolved"
               => Written.body[i] = JSONstringify(cur.elems[i].resp[1]))

\* C8: every tools/list result is the tool definition sequence in declaration
\* order, the same after any sequence of other requests.
C8_ToolsListStable ==
  /\ toolDefinitions = DeclaredTools(impl)
  /\ \A l \in listsSeen : l = toolDefinitions

\* C8 witness: a tools/list answered after an earlier tools/list and an
\* initialize
C8_Witness ==
  /\ listCalls >= 2 /\ isInitialized
  /\ SingleAnswered /\ TheRequest.method = "tools/list"
  /\ HasResult(TheAnswer)

(***************************************************************************)
(* part_003 serving one client that sends its requests back to back: each  *)
(* POST /mcp is its own run of the route, suspended at the awaits of       *)
(* executeTool.                                                            *)
(***************************************************************************)
InitStream ==
  /\ impl = "part_003"
  /\ toolDefinitions = DeclaredTools(impl)
  /\ isInitialized = FALSE
  /\ cur = Idle
  /\ listsSeen = {}
  /\ listCalls = 0
  /\ posts = NoPosts
  /\ delivered = <<>>
  /\ sse = NoSse
  /\ timers = {}
  /\ memo = {}
  /\ io = <<>>
  /\ initHandled = FALSE
  /\ health = NoHealth
  /\ handshook = {}
  /\ closed = FALSE

\* exchange k after its handler moved to h: res.json runs once the promise of
\* handleRequest has settled
StreamExchange(k, req, h) ==
  LET w == route003(Single(req), <<h>>, <<>>)
  IN /\ posts' = [posts EXCEPT ![k] = [arrived |-> TRUE, req |-> req, h |-> h, out |-> w]]
     /\ delivered' = IF w # <<>> /\ posts[k].out = <<>>
                     THEN Append(delivered, k) ELSE delivered

\* the client sends its next request
StreamPost(k, tool) ==
  /\ ~posts[k].arrived
  /\ \A j \in 1..(k - 1) : posts[j].arrived
  /\ LET req == StreamRequest(k, tool)
     IN StreamExchange(k, req, processSingleRequest(req, toolDefinitions))
  /\ UNCHANGED <<postVars, sseVars, histVars, clientVars>>

StreamFetchSettles(k, o) ==
  /\ posts[k].arrived
  /\ posts[k].h.st = "fetch"
  /\ StreamExchange(k, posts[k].req,
                    executeToolAfterFetch(posts[k].req.id, posts[k].h, o))
  /\ UNCHANGED <<postVars, sseVars, histVars, clientVars>>

StreamJsonSettles(k, o) ==
  /\ posts[k].arrived
  /\ posts[k].h.st = "json"
  /\ StreamExchange(k, posts[k].req,
                    executeToolAfterJson(posts[k].req.id, posts[k].h, o))
  /\ UNCHANGED <<postVars, sseVars, histVars, clientVars>>

NextStream ==
  \/ \E k \in 1..MaxPosts, tool \in StreamTools : StreamPost(k, tool)
  \/ \E k \in 1..MaxPosts, o \in FetchOutcomes : StreamFetchSettles(k, o)
  \/ \E k \in 1..MaxPosts, o \in JsonOutcomes : StreamJsonSettles(k, o)

SpecStream == InitStream /\ [][NextStream]_vars

\* C9: the responses to requests sent in the order r1, r2, r3 on one session
\* are delivered in that order, whatever the order their external I/O completes.
C9_ResponsesInSendOrder ==
  \A a, b \in DOMAIN delivered : a < b => delivered[a] < delivered[b]

(***************************************************************************)
(* part_003: app.get('/mcp/sse')                                           *)
(***************************************************************************)
\* the close listener that forgets to cancel the timer
reqOnClose_noClear(ts, keepAlive) == ts

\* req.on('close', () => clearInterval(keepAlive))
reqOnClose(ts, keepAlive) == ts \ {keepAlive}

\* setInterval returns a handle no earlier call returned
newHandle == Cardinality({c \in 1..MaxSse : sse[c].st # "none"}) + 1

InitSse ==
  /\ impl = "part_003"
  /\ toolDefinitions = DeclaredTools(impl)
  /\ isInitialized = FALSE
  /\ cur = Idle
  /\ listsSeen = {}
  /\ listCalls = 0
  /\ posts = NoPosts
  /\ delivered = <<>>
  /\ sse = NoSse
  /\ timers = {}
  /\ memo = {}
  /\ io = <<>>
  /\ initHandled = FALSE
  /\ health = NoHealth
  /\ handshook = {}
  /\ closed = FALSE

\* GET /mcp/sse that writes the open event but starts no interval
SseGet_noInterval(c) ==
  /\ sse[c].st = "none"
  /\ sse' = [sse EXCEPT ![c] = [st |-> "open", opens |-> 1, pings |-> 0,
                                keepAlive |-> newHandle]]
  /\ UNCHANGED <<timers, postVars, streamVars, histVars, clientVars>>

\* GET /mcp/sse: the open event is written and the keep-alive interval started
SseGet(c) ==
  /\ sse[c].st = "none"
  /\ sse' = [sse EXCEPT ![c] = [st |-> "open", opens |-> 1, pings |-> 0,
                                keepAlive |-> newHandle]]
  /\ timers' = timers \cup {newHandle}
  /\ UNCHANGED <<postVars, streamVars, histVars, clientVars>>

\* the interval callback of an active timer fires and writes a ping
KeepAliveTick(c) ==
  /\ sse[c].keepAlive \in timers
  /\ sse[c].pings < MaxPings
  /\ sse' = [sse EXCEPT ![c].pings = @ + 1]
  /\ UNCHANGED <<timers, postVars, streamVars, histVars, clientVars>>

\* the client goes away; the close event of the request is not yet dispatched
ClientDisconnects(c) ==
  /\ sse[c].st = "open"
  /\ sse' = [sse EXCEPT ![c].st = "gone"]
  /\ UNCHANGED <<timers, postVars, streamVars, histVars, clientVars>>

\* the close event of the request is dispatched to the listener
ReqClose(c) ==
  /\ sse[c].st = "gone"
  /\ sse' = [sse EXCEPT ![c].st = "closed"]
  /\ timers' = reqOnClose(timers, sse[c].keepAlive)
  /\ UNCHANGED <<postVars, streamVars, histVars, clientVars>>

NextSse ==
  \/ \E c \in 1..MaxSse : SseGet(c)
  \/ \E c \in 1..MaxSse : KeepAliveTick(c)
  \/ \E c \in 1..MaxSse : ClientDisconnects(c)
  \/ \E c \in 1..MaxSse : ReqClose(c)

SpecSse == InitSse /\ [][NextSse]_vars

\* C10: once the close event of an SSE connection has been handled its timer
\* is cancelled and no further ping is written to it, and handling the close
\* cancels the timer of no other connection.
C10_NoPingAfterClose ==
  [][/\ \A c \in 1..MaxSse :
          sse[c].st = "closed"
            => (sse[c].keepAlive \notin timers /\ sse'[c].pings = sse[c].pings)
     /\ \A c, d \in 1..MaxSse :
          (c # d /\ sse[c].st = "gone" /\ sse'[c].st = "closed"
             /\ sse[d].keepAlive \in timers)
            => sse[d].keepAlive \in timers']_vars

\* C10 witness: a connection closed after it was pinged while another
\* connection is open and has been pinged with its timer still running
C10_Witness ==
  \E c, d \in 1..MaxSse :
     /\ c # d
     /\ sse[c].st = "closed" /\ sse[c].pings >= 1 /\ sse[c].pings < MaxPings
     /\ sse[d].st = "open" /\ sse[d].keepAlive \in timers /\ sse[d].pings >= 1

(***************************************************************************)
(* The keep-alive interval under the scheduling of the event loop: an      *)
(* interval that stays active has its callback run again and again.        *)
(***************************************************************************)
FairSpecSse == SpecSse /\ \A c \in 1..MaxSse : WF_vars(KeepAliveTick(c))

\* C11: a connection that stays open is pinged after every keep-alive interval
\* (each ping count below the bound is followed by the next one unless the
\* client goes away), and a connection that was pinged got exactly one open
\* event before.
C11_KeepAlive ==
  /\ \A c \in 1..MaxSse : \A n \in 0..(MaxPings - 1) :
        (sse[c].st = "open" /\ sse[c].pings = n)
          ~> (sse[c].pings = n + 1 \/ sse[c].st # "open")
  /\ [](\A c \in 1..MaxSse : sse[c].pings >= 1 => sse[c].opens = 1)

\* C11 witness: an open connection that received every ping up to the bound
\* after its single open event
C11_Witness ==
  \E c \in 1..MaxSse :
     sse[c].st = "open" /\ sse[c].opens = 1 /\ sse[c].pings = MaxPings

(***************************************************************************)
(* Further properties of POST /mcp                                         *)
(***************************************************************************)
\* a message without an id
Notification(request) ==
  /\ request.kind = "object"
  /\ request.jsonrpc = "2.0"
  /\ request.id = Undefined
  /\ typeOf(request.method) = "string"

AckMethods == {"notifications/initialized", "logging/setLevel"}
\* the method names each server's switch routes
RoutedMethods(v) ==
  CASE v = "part_002" -> {"initialize", "tools/list", "tools/call"} \cup AckMethods
    [] v = "part_003" -> {"initialize", "initialized", "tools/list", "tools/call",
                          "completion/complete"}
    [] v = "part_004" -> {"initialize", "tools/list", "tools/call"}

\* a step in which the single request of a POST got its answer
AnswersSingle ==
  /\ cur.phase # "responded" /\ cur'.phase = "responded" /\ ~cur'.isArray

\* C12: a notification never produces a response: the reply holds a response
\* object for no element that is a notification, sent alone or in a batch.
C12_NoResponseToNotification ==
  Responded =>
    Len(Written.body) <=
      Cardinality({i \in DOMAIN cur.items : ~Notification(cur.items[i])})

\* C13: a valid request for notifications/initialized or logging/setLevel is
\* answered with the empty success result and changes no server state.
C13_Acknowledged ==
  [][(AnswersSingle /\ ValidEnvelope(cur'.items[1])
        /\ cur'.items[1].method \in AckMethods)
      => (/\ HasResult(cur'.out[1].body[1])
          /\ cur'.out[1].body[1].result = [empty |-> TRUE]
          /\ toolDefinitions' = toolDefinitions
          /\ isInitialized' = isInitialized)]_vars

\* C14: initialize answers with a result holding a protocol version, the
\* capabilities tools and logging, and the server name and version, and
\* handling it again leaves the state as handling it once.
C14_Initialize ==
  [][(AnswersSingle /\ ValidEnvelope(cur'.items[1])
        /\ cur'.items[1].method = "initialize")
      => (/\ HasResult(cur'.out[1].body[1])
          /\ DOMAIN cur'.out[1].body[1].result
               = {"protocolVersion", "capabilities", "serverInfo"}
          /\ {"tools", "logging"} \subseteq cur'.out[1].body[1].result.capabilities
          /\ DOMAIN cur'.out[1].body[1].result.serverInfo = {"name", "version"}
          /\ toolDefinitions' = toolDefinitions
          /\ (isInitialized => isInitialized'))]_vars

\* C16: a valid request whose method is none of the routed method names is
\* answered with error -32601 whose message contains the method, and no tool
\* body is executed.
C16_MethodNotFound ==
  (SingleAnswered /\ ValidEnvelope(TheRequest)
     /\ TheRequest.method \notin RoutedMethods(impl))
    => (/\ ErrorCode(TheAnswer, MethodNotFound)
        /\ Contains(TheAnswer.error.message, TheRequest.method)
        /\ ~cur.elems[1].ran)

\* C17: a tools/call without params or without params.name is answered with
\* error -32602 "tool name is required" and no tool body is executed.
C17_ToolNameRequired ==
  (SingleAnswered /\ ValidEnvelope(TheRequest)
     /\ TheRequest.method = "tools/call"
     /\ paramsName(TheRequest) = Undefined)
    => (/\ ErrorCode(TheAnswer, InvalidParams)
        /\ TheAnswer.error.message = <<"Invalid params: tool name is required">>
        /\ ~cur.elems[1].ran)

\* C18: when the fetch of a tool body rejects, the tools/call is answered with
\* error -32603 whose message contains the failure's message, carrying the
\* request id.  (A handler that leaves "fetch" settled, for a tool other than
\* get-chuck-joke-by-category, had its fetch rejected.)
C18_ToolFailureWrapped ==
  [][(/\ AnswersSingle /\ ValidEnvelope(cur'.items[1])
      /\ cur.phase = "pending" /\ cur.elems[1].st = "fetch"
      /\ cur.elems[1].tool # "get-chuck-joke-by-category")
      => (/\ ErrorCode(cur'.out[1].body[1], InternalError)
          /\ Contains(cur'.out[1].body[1].error.message, "fetch failed")
          /\ WireId(cur'.out[1].body[1]) = cur'.items[1].id)]_vars

\* C19: dispatch never rejects to its caller: the promise of every element
\* handler, a null batch element included, is fulfilled with a response.
C19_DispatchNeverRejects ==
  \A i \in DOMAIN cur.elems : cur.elems[i].st # "rejected"

\* the answer was written by a catch handler of the route
FromCatch ==
  /\ SingleAnswered
  /\ \/ impl = "part_002" /\ (ErrorCode(TheAnswer, InvalidRequest) \/ Written.status = 500)
     \/ impl = "part_003" /\ Written.status = 500
     \/ impl = "part_004" /\ ErrorCode(TheAnswer, InternalError)

\* C20: an answer written by a catch handler carries the payload's id when that
\* is a string or a number (0 and "" included), and null otherwise.
C20_BestEffortId ==
  FromCatch =>
    WireId(TheAnswer) = IF typeOf(TheRequest.id) \in {"string", "number"}
                        THEN TheRequest.id ELSE Null

(***************************************************************************)
(* The same requests before and after the handshake: a client repeats a    *)
(* few requests, one at a time, around initialize; memo keeps every answer *)
(* with the request, the outcomes of its I/O and whether an initialize had *)
(* been handled before.                                                    *)
(***************************************************************************)
InitializeRequest == Obj("2.0", "<num:1>", "initialize")
ProbeRequests ==
  {Obj("2.0", "<num:1>", "tools/list"),
   Obj("2.0", "<num:1>", "logging/setLevel"),
   Call("<num:1>", "get-chuck-joke-by-category", ObjectAtom, "dev",
        Undefined, Undefined)}

Remember(c, trace) ==
  IF c.phase = "responded" /\ c.items[1] \in ProbeRequests
  THEN memo \cup {[req |-> c.items[1], io |-> trace, init |-> initHandled,
                   answer |-> c.out[1].body[1]]}
  ELSE memo

InitHistory == Init

HistPost(request) ==
  /\ PostMcpStep(Single(request))
  /\ io' = <<>>
  /\ memo' = Remember(cur', <<>>)
  /\ initHandled' = (initHandled \/ request = InitializeRequest)
  /\ UNCHANGED clientVars

HistFetchSettles(o) ==
  /\ FetchSettlesStep(1, o)
  /\ io' = Append(io, o)
  /\ memo' = Remember(cur', io')
  /\ UNCHANGED <<initHandled, clientVars>>

HistJsonSettles(o) ==
  /\ JsonSettlesStep(1, o)
  /\ io' = Append(io, o)
  /\ memo' = Remember(cur', io')
  /\ UNCHANGED <<initHandled, clientVars>>

HistFlushed == FlushedStep /\ UNCHANGED <<histVars, clientVars>>

NextHistory ==
  \/ \E request \in ProbeRequests \cup {InitializeRequest} : HistPost(request)
  \/ \E o \in FetchOutcomes : HistFetchSettles(o)
  \/ \E o \in JsonOutcomes : HistJsonSettles(o)
  \/ HistFlushed

SpecHistory == InitHistory /\ [][NextHistory]_vars

\* C15: the answer to a tools/list, tools/call or acknowledgment request does
\* not depend on whether an initialize request was handled before: two answers
\* to the same request with the same I/O outcomes are equal.
C15_HistoryIndependent ==
  \A a, b \in memo : (a.req = b.req /\ a.io = b.io) => a.answer = b.answer

\* C15 witness: on the server that keeps isInitialized, the same tools/call
\* was answered before and after the handshake
C15_Witness ==
  /\ impl = "part_003" /\ isInitialized
  /\ \E a, b \in memo :
        /\ a.req = b.req /\ a.io = b.io /\ ~a.init /\ b.init
        /\ a.req.method = "tools/call"

(***************************************************************************)
(* The envelope validator of part_002                                      *)
(***************************************************************************)
\* the fields of a payload the envelope rules turn down: jsonrpc other than
\* "2.0", id no string or number, method no non-empty string, params present
\* and no object
Offending(request) ==
  {f \in {"jsonrpc", "id", "method"} : fieldFails(request, f)}
    \cup (IF request.method = "" THEN {"method"} ELSE {})
    \cup (IF request.params \notin {Undefined, ObjectAtom} THEN {"params"} ELSE {})

\* C21: the envelope validator rejects a payload with an offending field (an
\* empty method, a params that is no object among them) with InvalidRequest,
\* and the error's data lists every offending field.
C21_EnvelopeValidator ==
  (SingleAnswered /\ impl = "part_002" /\ Offending(TheRequest) # {})
    => (/\ ErrorCode(TheAnswer, InvalidRequest)
        /\ "data" \in DOMAIN TheAnswer.error
        /\ Range(TheAnswer.error.data) = Offending(TheRequest))

(***************************************************************************)
(* part_003 serving two clients: each sends POST /mcp requests and asks    *)
(* GET /health.  isInitialized is one variable of the module.              *)
(***************************************************************************)
InitClients == InitStream

ClientRequests ==
  {InitializeRequest,
   Obj("2.0", "<num:1>", "tools/list"),
   Call("<num:1>", "get-chuck-joke", Undefined, Undefined, Undefined, Undefined)}

\* the body GET /health answers with
healthBody ==
  [status |-> "healthy", server |-> "jokes-mcp-server",
   initialized |-> isInitialized, tools |-> Len(toolDefinitions)]

ClientPost(c, request) ==
  /\ PostMcpStep(Single(request))
  /\ handshook' = IF request = InitializeRequest THEN handshook \cup {c} ELSE handshook
  /\ UNCHANGED <<health, closed, histVars>>

ClientFetchSettles(o) == FetchSettlesStep(1, o) /\ UNCHANGED <<histVars, clientVars>>
ClientJsonSettles(o) == JsonSettlesStep(1, o) /\ UNCHANGED <<histVars, clientVars>>
ClientFlushed == FlushedStep /\ UNCHANGED <<histVars, clientVars>>

GetHealth(c) ==
  /\ health' = [health EXCEPT ![c] = <<healthBody>>]
  /\ UNCHANGED <<postVars, streamVars, sseVars, histVars, handshook, closed>>

NextClients ==
  \/ \E c \in Clients, request \in ClientRequests : ClientPost(c, request)
  \/ \E o \in FetchOutcomes : ClientFetchSettles(o)
  \/ \E o \in JsonOutcomes : ClientJsonSettles(o)
  \/ ClientFlushed
  \/ \E c \in Clients : GetHealth(c)

SpecClients == InitClients /\ [][NextClients]_vars

\* C22: handshake status is not shared between clients: a client sees
\* initialized = true on GET /health only if it has sent initialize itself.
C22_HandshakeNotShared ==
  \A c \in Clients :
     (health[c] # <<>> /\ health[c][1].initialized) => c \in handshook

(***************************************************************************)
(* The client's connection closing while POST /mcp is awaiting the         *)
(* external I/O of a tool body (part_002 and part_003; the tool bodies of  *)
(* part_004 do not await).  The routes register no close listener and test *)
(* nothing before res.json.                                                *)
(***************************************************************************)
InitClose == Init /\ impl \in {"part_002", "part_003"}

CloseRequests ==
  {Call(i, n, ObjectAtom, "dev", Undefined, Undefined) :
      i \in {"<num:1>", "1"}, n \in Range(JokeTools)}
    \cup {Obj("2.0", "<num:1>", "tools/list")}

ClosePost(request) ==
  /\ PostMcpStep(Single(request))
  /\ closed' = FALSE
  /\ UNCHANGED <<health, handshook, histVars>>

\* the socket of the exchange closes while its handler is suspended at an await
ConnectionCloses ==
  /\ cur.phase = "pending"
  /\ ~closed
  /\ closed' = TRUE
  /\ UNCHANGED <<postVars, streamVars, sseVars, histVars, health, handshook>>

CloseFetchSettles(o) == FetchSettlesStep(1, o) /\ UNCHANGED <<histVars, clientVars>>
CloseJsonSettles(o) == JsonSettlesStep(1, o) /\ UNCHANGED <<histVars, clientVars>>

CloseFlushed ==
  /\ FlushedStep
  /\ closed' = FALSE
  /\ UNCHANGED <<health, handshook, histVars>>

NextClose ==
  \/ \E request \in CloseRequests : ClosePost(request)
  \/ ConnectionCloses
  \/ \E o \in FetchOutcomes : CloseFetchSettles(o)
  \/ \E o \in JsonOutcomes : CloseJsonSettles(o)
  \/ CloseFlushed

SpecClose == InitClose /\ [][NextClose]_vars

\* C23: a response write never happens on a connection that is already
\* closed: the step in which res.json writes the response of the exchange is
\* taken only while the connection is open.
C23_NoWriteAfterClose ==
  [][(cur.out = <<>> /\ cur'.out # <<>>) => ~closed]_vars

(***************************************************************************)
(* Responses per POST /mcp                                                 *)
(***************************************************************************)
\* every handler call of the exchange has settled
AllSettled == \A i \in DOMAIN cur.elems : Settled(cur.elems[i])

ListedTools ==
  LET h == startHandlers(impl, Single(Obj("2.0", "<num:1>", "tools/list")),
                         toolDefinitions)[1]
  IN Range(h.resp[1].result.tools)

\* the arguments the tool's definition requires are present in the call
RequiredPresent(request) ==
  \A p \in requiredOf(paramsName(request)) : Truthy(argOf(request, p))

\* the tools/call of the exchange, with a valid envelope and its required arguments
CallsTool ==
  /\ cur.phase # "idle" /\ ~cur.isArray
  /\ ValidEnvelope(TheRequest)
  /\ TheRequest.method = "tools/call"
  /\ RequiredPresent(TheRequest)

\* C25: discovery and invocation agree: a tool name is in the tools/list
\* result if and only if a tools/call with that name and its required
\* arguments is dispatched to a tool body; the unknown-tool error is the answer
\* only for names that are not listed.
C25_ListedIffCallable ==
  CallsTool =>
    /\ (paramsName(TheRequest) \in ListedTools) <=> cur.elems[1].ran
    /\ (Responded /\ HasError(TheAnswer)
          /\ Contains(TheAnswer.error.message, "Unknown tool: "))
         => paramsName(TheRequest) \notin ListedTools

\* C25 witness: a listed tool was called with its required argument and its
\* body ran to a success answer
C25_Witness ==
  /\ CallsTool /\ Responded
  /\ paramsName(TheRequest) = "get-chuck-joke-by-category"
  /\ paramsName(TheRequest) \in ListedTools
  /\ cur.elems[1].ran
  /\ HasResult(TheAnswer)
====
